---------------------------- MODULE Spec2Model ----------------------------
(***************************************************************************)
(* Model of monitoring/debug-toolkit.py: the execution gateway             *)
(* (run_command, run_interactive) and the menu loops of DebugToolkit with  *)
(* every leaf action they dispatch to.                                     *)
(*                                                                         *)
(* Text.  A Python str is a sequence of pieces; a piece is a TLA+ string   *)
(* that is never looked inside.  What the operator types is made of        *)
(* one-character pieces, so strip(), lower(), isdigit(), split() and the   *)
(* truth value of a str are computed as Python computes them.  Literal     *)
(* fragments of the source are single pieces, cut where a namespace flag   *)
(* or a single quote begins.                                               *)
(*                                                                         *)
(* An iteration of a menu's `while True` loop is two steps of Spec: the    *)
(* loop head prints the menu and blocks in input(); then the choice        *)
(* arrives and is dispatched, and, for a leaf entry, the whole action      *)
(* runs, with every prompt it asks and every execution it makes.  The      *)
(* variable trace holds what the iteration did so far, in program order.   *)
(***************************************************************************)
EXTENDS Naturals, Sequences, FiniteSets

VARIABLES
    status,       \* "running" | "halted" (main_menu returned) | "crashed" (uncaught exception)
    pc,           \* "loop" (at the head of the top menu's loop) | "prompt" (blocked in its
                  \* input()) | "signal" (the SIGINT handler ran during that input())
    stack,        \* the menu loops on the call stack, main_menu at the bottom
    remote_host,  \* DebugToolkit.remote_host
    namespace,    \* DebugToolkit.namespace
    trace,        \* the events of the last loop iteration
    fresh,        \* history: Fresh(session at entry) from the entry into a sub-menu
                  \* until an input other than the way back is read
    changed,      \* history: the last assignment to self.namespace, from the action
                  \* that made it until the next leaf action has run or the menu is left
    interrupted,  \* what the SIGINT handler did while the loop waits in input()
    g_pc,         \* run_command in isolation: "call" | "child" | "returned" | "raised"
    g_cmd,        \* its cmd argument
    g_host,       \* its remote_host argument
    g_clock,      \* time the child has been running
    g_outcome,    \* how the child ended: "none" | "exit" | "hang" | "oserr"
    g_result      \* what run_command returned

vars == <<status, pc, stack, remote_host, namespace, trace, fresh, changed, interrupted,
          g_pc, g_cmd, g_host, g_clock, g_outcome, g_result>>

consoleVars ==
    <<status, pc, stack, remote_host, namespace, trace, fresh, changed, interrupted>>

gatewayVars == <<g_pc, g_cmd, g_host, g_clock, g_outcome, g_result>>

(***************************************************************************)
(* Bounds of the model.                                                    *)
(***************************************************************************)
\* Longest comma-separated port list the operator types in port_scan.
MaxPorts == 2

\* Longest output (in pieces) of `cat /proc/meminfo` that memory_pressure parses.
MaxOut == 3

\* How long past the timeout a hanging child would keep running if left alone.
MaxOverrun == 2

(***************************************************************************)
(* Python str operations.                                                  *)
(***************************************************************************)
IsSpace(c) == c \in {" ", "\n", "\t"}

RECURSIVE lstrip(_)
lstrip(s) == IF s # <<>> /\ IsSpace(Head(s)) THEN lstrip(Tail(s)) ELSE s

RECURSIVE rstrip(_)
rstrip(s) ==
    IF s # <<>> /\ IsSpace(s[Len(s)]) THEN rstrip(SubSeq(s, 1, Len(s) - 1)) ELSE s

strip(s) == rstrip(lstrip(s))

LowerChar(c) ==
    CASE c = "B" -> "b"
      [] c = "Q" -> "q"
      [] c = "X" -> "x"
      [] OTHER   -> c

lower(s) == [i \in 1..Len(s) |-> LowerChar(s[i])]

IsDigit(c) == c \in {"0", "1", "2", "3", "4", "5", "6", "7", "8", "9"}

isdigit(s) == s # <<>> /\ \A i \in 1..Len(s) : IsDigit(s[i])

\* `x in s` for a one-character x
contains(s, c) == \E i \in 1..Len(s) : s[i] = c

\* index of the first piece c in s, or 0
RECURSIVE find(_, _, _)
find(s, c, i) ==
    IF i > Len(s) THEN 0 ELSE IF s[i] = c THEN i ELSE find(s, c, i + 1)

\* s.split(c): always at least one field
RECURSIVE split(_, _)
split(s, c) ==
    LET k == find(s, c, 1)
    IN  IF k = 0 THEN <<s>>
        ELSE <<SubSeq(s, 1, k - 1)>> \o split(SubSeq(s, k + 1, Len(s)), c)

\* variant: the answer is used as it is, without `or <default>`
or_nothing(a, b) == a

\* `a or b` on str: a when it is non-empty
or(a, b) == IF a # <<>> THEN a ELSE b

\* the conditional expression `a if a else b`
ifelse(a, b) == IF a # <<>> THEN a ELSE b

\* the pieces of sub occur in s, in a row, from position i on
At(s, i, sub) == i + Len(sub) - 1 <= Len(s) /\ SubSeq(s, i, i + Len(sub) - 1) = sub

(***************************************************************************)
(* Optional[str]                                                           *)
(***************************************************************************)
None == [some |-> FALSE, val |-> <<>>]

Some(s) == [some |-> TRUE, val |-> s]

\* the truth value Python gives an Optional[str]
truthy(o) == o.some /\ o.val # <<>>

(***************************************************************************)
(* The child process of subprocess.run, as the gateway sees it.            *)
(*   exit:   the shell ran and ended with rc and the combined output;      *)
(*           a missing binary is the shell's rc 127 and its message        *)
(*   hang:   the child is still running when the timeout elapses           *)
(*   oserr:  subprocess.run raised (the shell could not be started)        *)
(***************************************************************************)
ExitCodes == {0, 1}

Outputs == {<<>>, <<"data">>}

OsErrors == {<<"[Errno 2] No such file or directory", ":", " ", "'/bin/sh'">>}

Outcome(kind, rc, out) == [kind |-> kind, rc |-> rc, out |-> out]

Hang == Outcome("hang", 0, <<>>)

Outcomes ==
    {Outcome("exit", rc, out) : rc \in ExitCodes, out \in Outputs}
        \cup {Hang}
        \cup {Outcome("oserr", 0, m) : m \in OsErrors}

\* What the child of an interactive execution can do: end, or be interrupted
\* by the operator.  run_interactive catches KeyboardInterrupt only; a failure
\* of subprocess.run to start the shell at all is not among the outcomes here.
InteractiveOutcomes == {"exited", "interrupted"}

(***************************************************************************)
(* run_command, run_interactive                                            *)
(***************************************************************************)
\* subprocess.run(..., timeout=60)
timeout == 60

Result(code, out) == [raised |-> FALSE, code |-> code, out |-> out]

Raised(exc) == [raised |-> TRUE, code |-> 0, out |-> exc]

\* the command line handed to the shell by run_command
ssh_captured(cmd, host) ==
    IF truthy(host)
    THEN <<"ssh -o ConnectTimeout=10 -o BatchMode=yes ">> \o host.val
             \o <<" ", "'">> \o cmd \o <<"'">>
    ELSE cmd

\* the command line handed to the shell by run_interactive
ssh_interactive(cmd, host) ==
    IF truthy(host)
    THEN <<"ssh -t ">> \o host.val \o <<" ", "'">> \o cmd \o <<"'">>
    ELSE cmd

\* variant: run_command without its `except Exception` clause
run_command_no_except(cmd, host, o) ==
    CASE o.kind = "exit"  -> Result(o.rc, o.out)
      [] o.kind = "hang"  -> Result(1, <<"Command timed out">>)
      [] o.kind = "oserr" -> Raised(o.out)

\* the try/except of run_command: what it returns for each outcome of the child
run_command(cmd, host, o) ==
    CASE o.kind = "exit"  -> Result(o.rc, o.out)
      [] o.kind = "hang"  -> Result(1, <<"Command timed out">>)
      [] o.kind = "oserr" -> Result(1, o.out)


\* The local shell reads the command line of ssh: a single quote opens or
\* closes a quoted stretch and is removed, so a quote inside the quoted
\* command ends the quoting.  (What the shell then does to the stretch left
\* outside the quotes, expansion and word splitting, is not modelled.)
sh_unquote(line) == SelectSeq(line, LAMBDA p : p # "'")

\* the command ssh hands to the remote host: its arguments after the host
remote_command(argv, host) ==
    sh_unquote(SubSeq(argv, Len(host) + 3, Len(argv)))

\* DebugToolkit.run_cmd / run_interactive_cmd read the session's remote_host
Session(host, ns) == [remote_host |-> host, namespace |-> ns]

(***************************************************************************)
(* Events of a loop iteration.                                             *)
(***************************************************************************)
Rendered(menu, title) == [ev |-> "menu", menu |-> menu, title |-> title]

Input(prompt, raw) == [ev |-> "input", prompt |-> prompt, raw |-> raw]

Call(fn, self) == [ev |-> "call", fn |-> fn, namespace |-> self.namespace]

Printed(text) == [ev |-> "print", text |-> text]

SetNamespace(ns) == [ev |-> "setns", namespace |-> ns]

Raise(exc) == [ev |-> "raise", exc |-> exc]

\* self.run_cmd(cmd): one captured execution; r is what run_command returned
Captured(self, cmd, r) ==
    <<[ev |-> "exec", mode |-> "captured", cmd |-> cmd,
       argv |-> ssh_captured(cmd, self.remote_host),
       raised |-> r.raised, code |-> r.code, out |-> r.out]>>
    \o (IF r.raised THEN <<Raise("Exception")>> ELSE <<>>)

run_cmd(self, cmd, o) == Captured(self, cmd, run_command(cmd, self.remote_host, o))

\* variant: main() installs no handler, SIGINT raises KeyboardInterrupt
on_sigint_default(s, f) == <<Raise("KeyboardInterrupt")>>

\* main(): signal.signal(signal.SIGINT, lambda s, f: print("\nInterrupted")).
\* The handler prints and returns: the interrupted call goes on, and no
\* KeyboardInterrupt is raised.
on_sigint(s, f) == <<Printed(<<"\nInterrupted">>)>>

\* run_interactive: subprocess.run(cmd, shell=True); an interrupt while the
\* child runs is the handler's, and a KeyboardInterrupt is passed over
run_interactive(cmd, host, how) ==
    <<[ev |-> "exec", mode |-> "interactive", cmd |-> cmd,
       argv |-> ssh_interactive(cmd, host), how |-> how]>>
    \o (IF how = "interrupted"
        THEN SelectSeq(on_sigint("SIGINT", "frame"), LAMBDA e : e.ev # "raise")
        ELSE <<>>)

\* variant: run_interactive_cmd leaves remote_host at its default, None
run_interactive_cmd_local(self, cmd, how) == run_interactive(cmd, None, how)

run_interactive_cmd(self, cmd, how) == run_interactive(cmd, self.remote_host, how)

\* the result of the last captured execution of a trace
Code(t) == t[1].code

Out(t) == t[1].out

\* an uncaught exception ends the iteration: nothing after it happens
RECURSIVE Unwind(_)
Unwind(t) ==
    IF t = <<>> THEN <<>>
    ELSE IF Head(t).ev = "raise" THEN <<Head(t)>>
    ELSE <<Head(t)>> \o Unwind(Tail(t))

colored(text, color) == <<color>> \o text \o <<"RESET">>

(***************************************************************************)
(* What the operator answers to an action's prompt.                        *)
(***************************************************************************)
Answers == {<<>>, <<" ">>, <<"web">>, <<" ", "7">>}

PortItems == {<<"2", "2">>, <<" ", "8", "0">>}

RECURSIVE PortLists(_)
PortLists(n) ==
    IF n = 1 THEN PortItems
    ELSE {l \o <<",">> \o p : l \in PortLists(n - 1), p \in PortItems}

PortAnswers ==
    {<<>>, <<"1", "-", "9">>, <<"2", "2", ",", "1", "-", "9">>}
        \cup UNION {PortLists(n) : n \in 1..MaxPorts}

\* all tuples of n outcomes
RECURSIVE OutcomeSeqs(_)
OutcomeSeqs(n) ==
    IF n = 0 THEN {<<>>}
    ELSE {s \o <<o>> : s \in OutcomeSeqs(n - 1), o \in Outcomes}

(***************************************************************************)
(* Network debugging                                                       *)
(***************************************************************************)
ping_test(self, a1, a2, o1) ==
    LET target == strip(a1)
        count  == or(strip(a2), <<"5">>)
        x      == run_cmd(self, <<"ping -c ">> \o count \o <<" ">> \o target, o1)
    IN  <<Input("Target host/IP: ", a1), Input("Ping count [5]: ", a2)>>
        \o x \o <<Printed(Out(x))>>

\* variant: the loop is left after its first port
port_loop_first_only(self, target, items, o) ==
    IF items = <<>> THEN <<>>
    ELSE LET port == strip(Head(items))
             x    == run_cmd(self, <<"nc -zv -w2 ">> \o target \o <<" ">> \o port
                                       \o <<" 2>&1">>, Head(o))
             st   == IF Code(x) = 0 THEN colored(<<"OPEN">>, "GREEN")
                                    ELSE colored(<<"CLOSED">>, "RED")
         IN  x \o <<Printed(<<"  Port ">> \o port \o <<": ">> \o st)>>

\* the `for port in ports.split(",")` loop of port_scan
RECURSIVE port_loop(_, _, _, _)
port_loop(self, target, items, o) ==
    IF items = <<>> THEN <<>>
    ELSE LET port == strip(Head(items))
             x    == run_cmd(self, <<"nc -zv -w2 ">> \o target \o <<" ">> \o port
                                       \o <<" 2>&1">>, Head(o))
             st   == IF Code(x) = 0 THEN colored(<<"OPEN">>, "GREEN")
                                    ELSE colored(<<"CLOSED">>, "RED")
         IN  x \o <<Printed(<<"  Port ">> \o port \o <<": ">> \o st)>>
               \o port_loop(self, target, Tail(items), Tail(o))

port_scan(self, a1, a2, o) ==
    LET target == strip(a1)
        ports  == strip(a2)
    IN  <<Input("Target host: ", a1),
          Input("Ports (comma-separated or range, e.g., 22,80,443 or 1-1000): ", a2)>>
        \o (IF contains(ports, "-")
            THEN <<Printed(<<"Scanning port range...">>)>>
                 \o run_cmd(self, <<"nmap -p ">> \o ports \o <<" ">> \o target
                                  \o <<" 2>/dev/null || echo ", "'",
                                       "nmap not installed", "'">>, Head(o))
            ELSE port_loop(self, target, split(ports, ","), o))

\* how many executions port_scan makes for an answer
port_scan_execs(a2) ==
    IF contains(strip(a2), "-") THEN 1 ELSE Len(split(strip(a2), ","))

dns_test(self, a1, o1, o2) ==
    LET target == strip(a1)
        x      == run_cmd(self, <<"host ">> \o target, o1)
        y      == run_cmd(self, <<"dig +short ">> \o target, o2)
    IN  <<Input("Hostname to resolve: ", a1), Printed(<<"\nUsing system resolver:">>)>>
        \o x \o <<Printed(Out(x)), Printed(<<"\nUsing dig:">>)>>
        \o y \o <<Printed(ifelse(Out(y), <<"No results">>))>>

traceroute(self, a1, h1) ==
    LET target == strip(a1)
    IN  <<Input("Target host: ", a1),
          Printed(<<"Running traceroute (this may take a moment)...">>)>>
        \o run_interactive_cmd(self, <<"traceroute -n -m 15 ">> \o target
                                      \o <<" 2>/dev/null || tracepath ">> \o target, h1)

show_connections(self, o1) ==
    LET x == run_cmd(self, <<"ss -tunapl 2>/dev/null | head -50">>, o1)
    IN  <<Printed(<<"\nActive connections:">>)>> \o x \o <<Printed(Out(x))>>

interface_stats(self, o1) ==
    LET x == run_cmd(self, <<"ip -s link">>, o1)
    IN  <<Printed(<<"\nInterface statistics:">>)>> \o x \o <<Printed(Out(x))>>

tcpdump_capture(self, a1, a2, a3, h1) ==
    LET interface   == or(strip(a1), <<"any">>)
        port        == strip(a2)
        duration    == or(strip(a3), <<"10">>)
        port_filter == IF port # <<>> THEN <<"port ">> \o port ELSE <<>>
    IN  <<Input("Interface [any]: ", a1), Input("Port filter (optional): ", a2),
          Input("Duration in seconds [10]: ", a3),
          Printed(<<"\nCapturing for ">> \o duration \o <<" seconds... (Ctrl+C to stop)">>),
          Printed(<<"Note: Requires root privileges">>)>>
        \o run_interactive_cmd(self,
               <<"timeout ">> \o duration \o <<" tcpdump -i ">> \o interface \o <<" ">>
                 \o port_filter \o <<" -nn 2>/dev/null || echo ", "'",
                                     "tcpdump requires root", "'">>, h1)

(***************************************************************************)
(* Process debugging                                                       *)
(***************************************************************************)
top_by_cpu(self, o1) ==
    LET x == run_cmd(self, <<"ps aux --sort=-%cpu | head -16">>, o1)
    IN  <<Printed(<<"\nTop 15 processes by CPU:">>)>> \o x \o <<Printed(Out(x))>>

top_by_memory(self, o1) ==
    LET x == run_cmd(self, <<"ps aux --sort=-%mem | head -16">>, o1)
    IN  <<Printed(<<"\nTop 15 processes by memory:">>)>> \o x \o <<Printed(Out(x))>>

find_process(self, a1, o1) ==
    LET name == strip(a1)
        x    == run_cmd(self, <<"ps aux | grep -i ", "'">> \o name
                                \o <<"'", " | grep -v grep">>, o1)
    IN  <<Input("Process name pattern: ", a1)>>
        \o x \o <<Printed(ifelse(Out(x), <<"No matching processes">>))>>

strace_process(self, a1, a2, h1) ==
    LET pid      == strip(a1)
        duration == or(strip(a2), <<"5">>)
    IN  <<Input("Process ID: ", a1), Input("Duration in seconds [5]: ", a2),
          Printed(<<"\nTracing PID ">> \o pid \o <<" for ">> \o duration \o <<" seconds...">>),
          Printed(<<"Note: Requires root privileges">>)>>
        \o run_interactive_cmd(self, <<"timeout ">> \o duration \o <<" strace -p ">> \o pid
                                      \o <<" 2>&1 | head -100">>, h1)

open_files(self, a1, o1) ==
    LET pid_or_name == strip(a1)
        x == IF isdigit(pid_or_name)
             THEN run_cmd(self, <<"ls -la /proc/">> \o pid_or_name
                                \o <<"/fd 2>/dev/null | head -50">>, o1)
             ELSE run_cmd(self, <<"lsof -c ">> \o pid_or_name
                                \o <<" 2>/dev/null | head -50">>, o1)
    IN  <<Input("Process ID or name: ", a1)>>
        \o x \o <<Printed(ifelse(Out(x), <<"No results (may require root)">>))>>

thread_analysis(self, a1, o1) ==
    LET pid == strip(a1)
        x   == run_cmd(self, <<"ps -T -p ">> \o pid, o1)
    IN  <<Input("Process ID: ", a1)>> \o x \o <<Printed(Out(x))>>

zombie_processes(self, o1) ==
    LET x == run_cmd(self, <<"ps aux | awk ", "'", "$8 ~ /Z/ {print}", "'">>, o1)
    IN  x \o (IF Out(x) # <<>>
              THEN <<Printed(<<"\nZombie processes found:">>), Printed(Out(x))>>
              ELSE <<Printed(colored(<<"\nNo zombie processes">>, "GREEN"))>>)

(***************************************************************************)
(* Log analysis                                                            *)
(***************************************************************************)
\* what the operator answers to an action's own numbered choice
Choices == {<<"1">>, <<"2">>, <<"3">>, <<"4">>, <<"5">>, <<>>, <<"x">>, <<" ", "1">>}

\* variant: an answer that matches no option is asked for again
journalctl_menu_asks_again(self, c, a1, h1) ==
    LET choice == strip(c)
    IN  <<Printed(<<"\n  1) Last 100 lines">>), Printed(<<"  2) Since 1 hour ago">>),
          Printed(<<"  3) Since boot">>), Printed(<<"  4) Follow (live)">>),
          Printed(<<"  5) Specific unit">>), Input("Choice: ", c)>>
        \o (CASE choice = <<"1">> ->
                   run_interactive_cmd(self, <<"journalctl -n 100 --no-pager">>, h1)
              [] choice = <<"2">> ->
                   run_interactive_cmd(self, <<"journalctl --since ", "'", "1 hour ago", "'",
                                                " --no-pager | tail -200">>, h1)
              [] choice = <<"3">> ->
                   run_interactive_cmd(self, <<"journalctl -b --no-pager | tail -200">>, h1)
              [] choice = <<"4">> ->
                   run_interactive_cmd(self, <<"journalctl -f">>, h1)
              [] choice = <<"5">> ->
                   <<Input("Unit name: ", a1)>>
                   \o run_interactive_cmd(self, <<"journalctl -u ">> \o strip(a1)
                                                 \o <<" -n 100 --no-pager">>, h1)
              [] OTHER -> <<Input("Choice: ", a1)>>)

journalctl_menu(self, c, a1, h1) ==
    LET choice == strip(c)
    IN  <<Printed(<<"\n  1) Last 100 lines">>), Printed(<<"  2) Since 1 hour ago">>),
          Printed(<<"  3) Since boot">>), Printed(<<"  4) Follow (live)">>),
          Printed(<<"  5) Specific unit">>), Input("Choice: ", c)>>
        \o (CASE choice = <<"1">> ->
                   run_interactive_cmd(self, <<"journalctl -n 100 --no-pager">>, h1)
              [] choice = <<"2">> ->
                   run_interactive_cmd(self, <<"journalctl --since ", "'", "1 hour ago", "'",
                                                " --no-pager | tail -200">>, h1)
              [] choice = <<"3">> ->
                   run_interactive_cmd(self, <<"journalctl -b --no-pager | tail -200">>, h1)
              [] choice = <<"4">> ->
                   run_interactive_cmd(self, <<"journalctl -f">>, h1)
              [] choice = <<"5">> ->
                   <<Input("Unit name: ", a1)>>
                   \o run_interactive_cmd(self, <<"journalctl -u ">> \o strip(a1)
                                                 \o <<" -n 100 --no-pager">>, h1)
              [] OTHER -> <<>>)

auth_logs(self, o1) ==
    LET x == run_cmd(self, <<"tail -100 /var/log/auth.log 2>/dev/null || tail -100 /var/log/secure 2>/dev/null">>, o1)
    IN  x \o <<Printed(ifelse(Out(x), <<"Auth log not found">>))>>

\* variant: without the `else: return`, print(output) reads an unbound local
dmesg_logs_no_return(self, c, o1) ==
    LET choice == strip(c)
        x == CASE choice = <<"1">> ->
                    run_cmd(self, <<"dmesg -T 2>/dev/null | tail -100">>, o1)
               [] choice = <<"2">> ->
                    run_cmd(self, <<"dmesg -T --level=err,crit,alert,emerg 2>/dev/null">>, o1)
               [] choice = <<"3">> ->
                    run_cmd(self, <<"dmesg -T 2>/dev/null | grep -iE ", "'",
                                    "disk|memory|cpu|hardware|error", "'">>, o1)
               [] OTHER -> <<>>
    IN  <<Printed(<<"\n  1) All messages">>), Printed(<<"  2) Errors only">>),
          Printed(<<"  3) Hardware messages">>), Input("Choice: ", c)>>
        \o (IF x = <<>> THEN <<Raise("UnboundLocalError")>> ELSE x \o <<Printed(Out(x))>>)

dmesg_logs(self, c, o1) ==
    LET choice == strip(c)
        x == CASE choice = <<"1">> ->
                    run_cmd(self, <<"dmesg -T 2>/dev/null | tail -100">>, o1)
               [] choice = <<"2">> ->
                    run_cmd(self, <<"dmesg -T --level=err,crit,alert,emerg 2>/dev/null">>, o1)
               [] choice = <<"3">> ->
                    run_cmd(self, <<"dmesg -T 2>/dev/null | grep -iE ", "'",
                                    "disk|memory|cpu|hardware|error", "'">>, o1)
               [] OTHER -> <<>>
    IN  <<Printed(<<"\n  1) All messages">>), Printed(<<"  2) Errors only">>),
          Printed(<<"  3) Hardware messages">>), Input("Choice: ", c)>>
        \o (IF x = <<>> THEN <<>> ELSE x \o <<Printed(Out(x))>>)

search_logs(self, a1, a2, o1) ==
    LET pattern == strip(a1)
        since   == or(strip(a2), <<"1 hour ago">>)
        x == run_cmd(self, <<"journalctl --since ", "'">> \o since
                             \o <<"'", " --no-pager | grep -i ", "'">> \o pattern
                             \o <<"'", " | tail -100">>, o1)
    IN  <<Input("Search pattern: ", a1),
          Input("Since (e.g., '1 hour ago', '2024-01-01') [1 hour ago]: ", a2)>>
        \o x \o <<Printed(ifelse(Out(x), <<"No matches found">>))>>

failed_services(self, o1) ==
    LET x == run_cmd(self, <<"systemctl --failed --no-pager">>, o1)
    IN  x \o <<Printed(Out(x))>>

recent_errors(self, o1) ==
    LET x == run_cmd(self, <<"journalctl -p err --since ", "'", "1 hour ago", "'",
                             " --no-pager | tail -50">>, o1)
    IN  x \o <<Printed(ifelse(Out(x), <<"No errors in the last hour">>))>>

(***************************************************************************)
(* Resource analysis                                                       *)
(***************************************************************************)
memory_details(self, o1, o2) ==
    LET x == run_cmd(self, <<"free -h">>, o1)
        y == run_cmd(self, <<"ps aux --sort=-%mem | head -10">>, o2)
    IN  <<Printed(<<"\nMemory Summary:">>)>> \o x
        \o <<Printed(Out(x)), Printed(<<"\nTop memory consumers:">>)>> \o y
        \o <<Printed(Out(y))>>

disk_usage(self, o1, o2) ==
    LET x == run_cmd(self, <<"df -h">>, o1)
        y == run_cmd(self, <<"du -sh /* 2>/dev/null | sort -rh | head -10">>, o2)
    IN  <<Printed(<<"\nFilesystem usage:">>)>> \o x
        \o <<Printed(Out(x)), Printed(<<"\nLargest directories in /:">>)>> \o y
        \o <<Printed(Out(y))>>

\* what `cat /proc/meminfo` (or the gateway, in its place) may have printed
MemPieces == {":", "\n", " ", "MemTotal"}

RECURSIVE MemTexts(_)
MemTexts(n) ==
    IF n = 0 THEN {<<>>}
    ELSE MemTexts(n - 1)
           \cup {t \o <<c>> : t \in {u \in MemTexts(n - 1) : Len(u) = n - 1}, c \in MemPieces}

MemOutcomes ==
    {Outcome("exit", rc, out) : rc \in ExitCodes, out \in MemTexts(MaxOut)}
        \cup {Hang}
        \cup {Outcome("oserr", 0, m) : m \in OsErrors}

\* dict.get(key, default) on the pairs of a dict comprehension: the last pair wins
RECURSIVE get(_, _, _)
get(d, key, default) ==
    IF d = <<>> THEN default
    ELSE IF d[Len(d)][1] = key THEN d[Len(d)][2]
    ELSE get(SubSeq(d, 1, Len(d) - 1), key, default)

\* one line of the comprehension: the pair, or the IndexError of l.split(':')[1]
meminfo_pair(l) ==
    LET f == split(l, ":")
    IN  IF Len(f) < 2 THEN <<"IndexError">> ELSE <<strip(f[1]), strip(f[2])>>

\* variant: the comprehension without its `if ':' in l`
meminfo_lines_unfiltered(output) ==
    LET ls == split(output, "\n")
    IN  [i \in 1..Len(ls) |-> meminfo_pair(ls[i])]

\* {l.split(':')[0].strip(): l.split(':')[1].strip() for l in output.split('\n') if ':' in l}
meminfo_lines(output) ==
    LET ls == SelectSeq(split(output, "\n"), LAMBDA l : contains(l, ":"))
    IN  [i \in 1..Len(ls) |-> meminfo_pair(ls[i])]

memory_pressure(self, o1) ==
    LET x     == run_cmd(self, <<"cat /proc/meminfo">>, o1)
        lines == meminfo_lines(Out(x))
        NA    == <<"N/A">>
    IN  x \o (IF \E i \in 1..Len(lines) : lines[i] = <<"IndexError">>
              THEN <<Raise("IndexError")>>
              ELSE <<Printed(<<"\nMemory Pressure Analysis:">>),
                     Printed(<<"  MemTotal:     ">> \o get(lines, <<"MemTotal">>, NA)),
                     Printed(<<"  MemFree:      ">> \o get(lines, <<"MemFree">>, NA)),
                     Printed(<<"  MemAvailable: ">> \o get(lines, <<"MemAvailable">>, NA)),
                     Printed(<<"  Buffers:      ">> \o get(lines, <<"Buffers">>, NA)),
                     Printed(<<"  Cached:       ">> \o get(lines, <<"Cached">>, NA)),
                     Printed(<<"  SwapTotal:    ">> \o get(lines, <<"SwapTotal">>, NA)),
                     Printed(<<"  SwapFree:     ">> \o get(lines, <<"SwapFree">>, NA))>>)

cpu_info(self, o1) ==
    LET x == run_cmd(self, <<"lscpu">>, o1)
    IN  x \o <<Printed(Out(x))>>

io_stats(self, o1) ==
    LET x == run_cmd(self, <<"iostat -x 1 3 2>/dev/null || echo ", "'",
                             "iostat not installed", "'">>, o1)
    IN  x \o <<Printed(Out(x))>>

\* resource_menu's entries 1 and 3 call run_interactive_cmd themselves
top(self, h1) == run_interactive_cmd(self, <<"top">>, h1)

\* variant: entry 3 asks (captured) whether iotop is installed before it runs it
iotop_checked(self, h1) ==
    run_cmd(self, <<"which iotop">>, Outcome("exit", 0, <<"data">>))
    \o run_interactive_cmd(self, <<"iotop -a 2>/dev/null || echo ", "'",
                                  "iotop not installed (requires root)", "'">>, h1)

iotop(self, h1) ==
    run_interactive_cmd(self, <<"iotop -a 2>/dev/null || echo ", "'",
                              "iotop not installed (requires root)", "'">>, h1)

(***************************************************************************)
(* Kubernetes debugging                                                    *)
(***************************************************************************)
\* variant: pod status falls back to the default namespace when the listing fails
k8s_pod_status_resets(self, o1) ==
    LET x == run_cmd(self, <<"kubectl ", "get pods ", "-n ">> \o self.namespace
                             \o <<" -o wide">>, o1)
    IN  x \o (IF Code(x) # 0 THEN <<SetNamespace(<<"default">>)>> ELSE <<>>)
          \o <<Printed(Out(x))>>

k8s_pod_status(self, o1) ==
    LET x == run_cmd(self, <<"kubectl ", "get pods ", "-n ">> \o self.namespace
                             \o <<" -o wide">>, o1)
    IN  x \o <<Printed(Out(x))>>

k8s_logs(self, a1, a2, c, o1, o2, h1) ==
    LET x   == run_cmd(self, <<"kubectl ", "get pods ", "-n ">> \o self.namespace
                               \o <<" --no-headers">>, o1)
        pod            == strip(a1)
        container      == strip(a2)
        container_flag == IF container # <<>> THEN <<"-c ">> \o container ELSE <<>>
        choice         == strip(c)
        logs == <<"kubectl ", "logs ">> \o pod \o <<" ", "-n ">> \o self.namespace
                  \o <<" ">> \o container_flag
    IN  x \o <<Printed(<<"Available pods:">>), Printed(Out(x)),
               Input("\nPod name: ", a1), Input("Container (optional): ", a2),
               Printed(<<"\n  1) Last 100 lines">>), Printed(<<"  2) Follow">>),
               Printed(<<"  3) Previous container">>), Input("Choice: ", c)>>
          \o (CASE choice = <<"1">> ->
                     LET y == run_cmd(self, logs \o <<" --tail=100">>, o2)
                     IN  y \o <<Printed(Out(y))>>
                [] choice = <<"2">> ->
                     run_interactive_cmd(self, logs \o <<" -f">>, h1)
                [] choice = <<"3">> ->
                     LET y == run_cmd(self, logs \o <<" --previous --tail=100">>, o2)
                     IN  y \o <<Printed(Out(y))>>
                [] OTHER -> <<>>)

k8s_exec(self, a1, a2, h1) ==
    LET pod   == strip(a1)
        shell == or(strip(a2), <<"/bin/sh">>)
    IN  <<Input("Pod name: ", a1), Input("Shell [/bin/sh]: ", a2)>>
        \o run_interactive_cmd(self, <<"kubectl ", "exec -it ">> \o pod \o <<" ", "-n ">>
                                      \o self.namespace \o <<" -- ">> \o shell, h1)

k8s_describe(self, a1, a2, h1) ==
    LET resource == or(strip(a1), <<"pod">>)
        name     == strip(a2)
    IN  <<Input("Resource type [pod]: ", a1), Input("Resource name: ", a2)>>
        \o run_interactive_cmd(self, <<"kubectl ", "describe ">> \o resource \o <<" ">>
                                      \o name \o <<" ", "-n ">> \o self.namespace
                                      \o <<" | less">>, h1)

k8s_port_forward(self, a1, a2, h1) ==
    LET pod   == strip(a1)
        ports == strip(a2)
    IN  <<Input("Pod name: ", a1), Input("Ports (local:remote, e.g., 8080:80): ", a2),
          Printed(<<"Port forwarding... Press Ctrl+C to stop">>)>>
        \o run_interactive_cmd(self, <<"kubectl ", "port-forward ">> \o pod \o <<" ", "-n ">>
                                      \o self.namespace \o <<" ">> \o ports, h1)

\* variant: events are asked for without the namespace flag
k8s_events_no_flag(self, o1) ==
    LET x == run_cmd(self, <<"kubectl ", "get events ", " --sort-by=", "'",
                             ".lastTimestamp", "'", " | tail -30">>, o1)
    IN  x \o <<Printed(Out(x))>>

k8s_events(self, o1) ==
    LET x == run_cmd(self, <<"kubectl ", "get events ", "-n ">> \o self.namespace
                             \o <<" --sort-by=", "'", ".lastTimestamp", "'",
                                  " | tail -30">>, o1)
    IN  x \o <<Printed(Out(x))>>

k8s_nodes(self, o1, o2) ==
    LET x == run_cmd(self, <<"kubectl ", "get nodes -o wide">>, o1)
        y == run_cmd(self, <<"kubectl ", "get nodes -o jsonpath=", "'",
                             "{range .items[*]}{.metadata.name}: {.status.conditions[-1].type}={.status.conditions[-1].status}{\"\\n\"}{end}",
                             "'">>, o2)
    IN  x \o <<Printed(Out(x)), Printed(<<"\nNode conditions:">>)>> \o y
          \o <<Printed(Out(y))>>

\* variant: the name is asked for before the namespaces are listed
change_namespace_prompt_first(self, a1, o1) ==
    LET x  == run_cmd(self, <<"kubectl ", "get ns --no-headers | awk ", "'",
                              "{print $1}", "'">>, o1)
        ns == strip(a1)
    IN  <<Input("\nNew namespace: ", a1)>>
          \o x \o <<Printed(<<"Available namespaces:">>), Printed(Out(x)),
                    SetNamespace(ns),
                    Printed(colored(<<"Switched to namespace: ">> \o ns, "GREEN"))>>

change_namespace(self, a1, o1) ==
    LET x  == run_cmd(self, <<"kubectl ", "get ns --no-headers | awk ", "'",
                              "{print $1}", "'">>, o1)
        ns == strip(a1)
    IN  x \o <<Printed(<<"Available namespaces:">>), Printed(Out(x)),
               Input("\nNew namespace: ", a1), SetNamespace(ns),
               Printed(colored(<<"Switched to namespace: ">> \o ns, "GREEN"))>>

(***************************************************************************)
(* Every way a leaf action can go: the operator's answers to its prompts   *)
(* and the outcome of each execution it makes.                             *)
(***************************************************************************)
Behaviours(fn, self) ==
    CASE fn = "ping_test" ->
           {ping_test(self, a1, a2, o1) : a1 \in Answers, a2 \in Answers, o1 \in Outcomes}
      [] fn = "port_scan" ->
           UNION {{port_scan(self, a1, a2, o) : a1 \in {<<>>, <<"web">>},
                                                o \in OutcomeSeqs(port_scan_execs(a2))}
                  : a2 \in PortAnswers}
      [] fn = "dns_test" ->
           {dns_test(self, a1, o1, o2) : a1 \in Answers, o1 \in Outcomes, o2 \in Outcomes}
      [] fn = "traceroute" ->
           {traceroute(self, a1, h1) : a1 \in Answers, h1 \in InteractiveOutcomes}
      [] fn = "show_connections" -> {show_connections(self, o1) : o1 \in Outcomes}
      [] fn = "interface_stats" -> {interface_stats(self, o1) : o1 \in Outcomes}
      [] fn = "tcpdump_capture" ->
           {tcpdump_capture(self, a1, a2, a3, h1) :
               a1 \in Answers, a2 \in Answers, a3 \in Answers, h1 \in InteractiveOutcomes}
      [] fn = "top_by_cpu" -> {top_by_cpu(self, o1) : o1 \in Outcomes}
      [] fn = "top_by_memory" -> {top_by_memory(self, o1) : o1 \in Outcomes}
      [] fn = "find_process" ->
           {find_process(self, a1, o1) : a1 \in Answers, o1 \in Outcomes}
      [] fn = "strace_process" ->
           {strace_process(self, a1, a2, h1) :
               a1 \in Answers, a2 \in Answers, h1 \in InteractiveOutcomes}
      [] fn = "open_files" -> {open_files(self, a1, o1) : a1 \in Answers, o1 \in Outcomes}
      [] fn = "thread_analysis" ->
           {thread_analysis(self, a1, o1) : a1 \in Answers, o1 \in Outcomes}
      [] fn = "zombie_processes" -> {zombie_processes(self, o1) : o1 \in Outcomes}
      [] fn = "journalctl_menu" ->
           {journalctl_menu(self, c, a1, h1) :
               c \in Choices, a1 \in Answers, h1 \in InteractiveOutcomes}
      [] fn = "auth_logs" -> {auth_logs(self, o1) : o1 \in Outcomes}
      [] fn = "dmesg_logs" -> {dmesg_logs(self, c, o1) : c \in Choices, o1 \in Outcomes}
      [] fn = "search_logs" ->
           {search_logs(self, a1, a2, o1) : a1 \in Answers, a2 \in Answers, o1 \in Outcomes}
      [] fn = "failed_services" -> {failed_services(self, o1) : o1 \in Outcomes}
      [] fn = "recent_errors" -> {recent_errors(self, o1) : o1 \in Outcomes}
      [] fn = "top" -> {top(self, h1) : h1 \in InteractiveOutcomes}
      [] fn = "memory_details" ->
           {memory_details(self, o1, o2) : o1 \in Outcomes, o2 \in Outcomes}
      [] fn = "iotop" -> {iotop(self, h1) : h1 \in InteractiveOutcomes}
      [] fn = "disk_usage" -> {disk_usage(self, o1, o2) : o1 \in Outcomes, o2 \in Outcomes}
      [] fn = "memory_pressure" -> {memory_pressure(self, o1) : o1 \in MemOutcomes}
      [] fn = "cpu_info" -> {cpu_info(self, o1) : o1 \in Outcomes}
      [] fn = "io_stats" -> {io_stats(self, o1) : o1 \in Outcomes}
      [] fn = "k8s_pod_status" -> {k8s_pod_status(self, o1) : o1 \in Outcomes}
      [] fn = "k8s_logs" ->
           \* an outcome is drawn for the executions the choice leads to
           UNION {{k8s_logs(self, a1, a2, c, o1, o2, h1) :
                      a1 \in Answers, a2 \in Answers, o1 \in Outcomes,
                      o2 \in (IF strip(c) \in {<<"1">>, <<"3">>} THEN Outcomes ELSE {Hang}),
                      h1 \in (IF strip(c) = <<"2">> THEN InteractiveOutcomes
                                                    ELSE {"exited"})}
                  : c \in Choices}
      [] fn = "k8s_exec" ->
           {k8s_exec(self, a1, a2, h1) :
               a1 \in Answers, a2 \in Answers, h1 \in InteractiveOutcomes}
      [] fn = "k8s_describe" ->
           {k8s_describe(self, a1, a2, h1) :
               a1 \in Answers, a2 \in Answers, h1 \in InteractiveOutcomes}
      [] fn = "k8s_port_forward" ->
           {k8s_port_forward(self, a1, a2, h1) :
               a1 \in Answers, a2 \in Answers, h1 \in InteractiveOutcomes}
      [] fn = "k8s_events" -> {k8s_events(self, o1) : o1 \in Outcomes}
      [] fn = "k8s_nodes" -> {k8s_nodes(self, o1, o2) : o1 \in Outcomes, o2 \in Outcomes}
      [] fn = "change_namespace" ->
           {change_namespace(self, a1, o1) : a1 \in Answers, o1 \in Outcomes}

(***************************************************************************)
(* The menus: the entries each one prints, and its if/elif chain.          *)
(***************************************************************************)
Menus == {"main_menu", "network_menu", "process_menu", "log_menu", "resource_menu",
          "k8s_menu"}

SubMenus == Menus \ {"main_menu"}

\* variant: the Kubernetes menu numbers two of its entries 7
EntryKeys_two_sevens(menu) ==
    CASE menu = "main_menu"     -> <<"1", "2", "3", "4", "5", "q">>
      [] menu = "network_menu"  -> <<"1", "2", "3", "4", "5", "6", "7", "b">>
      [] menu = "process_menu"  -> <<"1", "2", "3", "4", "5", "6", "7", "b">>
      [] menu = "log_menu"      -> <<"1", "2", "3", "4", "5", "6", "b">>
      [] menu = "resource_menu" -> <<"1", "2", "3", "4", "5", "6", "7", "b">>
      [] menu = "k8s_menu"      -> <<"1", "2", "3", "4", "5", "6", "7", "7", "b">>

\* the keys of the entries a menu prints, one per printed line, in order
EntryKeys(menu) ==
    CASE menu = "main_menu"     -> <<"1", "2", "3", "4", "5", "q">>
      [] menu = "network_menu"  -> <<"1", "2", "3", "4", "5", "6", "7", "b">>
      [] menu = "process_menu"  -> <<"1", "2", "3", "4", "5", "6", "7", "b">>
      [] menu = "log_menu"      -> <<"1", "2", "3", "4", "5", "6", "b">>
      [] menu = "resource_menu" -> <<"1", "2", "3", "4", "5", "6", "7", "b">>
      [] menu = "k8s_menu"      -> <<"1", "2", "3", "4", "5", "6", "7", "8", "b">>

\* the keys of the entries a menu prints
Entries(menu) == {EntryKeys(menu)[i] : i \in 1..Len(EntryKeys(menu))}

\* the section title a menu prints
Title(menu, self) ==
    CASE menu = "main_menu"     -> <<"Debug Toolkit">>
      [] menu = "network_menu"  -> <<"Network Debugging">>
      [] menu = "process_menu"  -> <<"Process Debugging">>
      [] menu = "log_menu"      -> <<"Log Analysis">>
      [] menu = "resource_menu" -> <<"Resource Analysis">>
      [] menu = "k8s_menu"      ->
           <<"Kubernetes Debugging (ns: ">> \o self.namespace \o <<")">>

\* Each dispatch gives what the chain runs for a choice: a menu or action by
\* name, "break", or "continue" when no branch matches.
\* variant: "b" is taken as a way out of the main menu too
main_dispatch_b_breaks(choice) ==
    CASE choice = <<"1">> -> "network_menu"
      [] choice = <<"2">> -> "process_menu"
      [] choice = <<"3">> -> "log_menu"
      [] choice = <<"4">> -> "resource_menu"
      [] choice = <<"5">> -> "k8s_menu"
      [] lower(choice) \in {<<"q">>, <<"b">>} -> "break"
      [] OTHER -> "continue"

\* variant: the "q" branch prints its goodbye and does not break
main_dispatch_q_no_break(choice) ==
    CASE choice = <<"1">> -> "network_menu"
      [] choice = <<"2">> -> "process_menu"
      [] choice = <<"3">> -> "log_menu"
      [] choice = <<"4">> -> "resource_menu"
      [] choice = <<"5">> -> "k8s_menu"
      [] OTHER -> "continue"

main_dispatch(choice) ==
    CASE choice = <<"1">> -> "network_menu"
      [] choice = <<"2">> -> "process_menu"
      [] choice = <<"3">> -> "log_menu"
      [] choice = <<"4">> -> "resource_menu"
      [] choice = <<"5">> -> "k8s_menu"
      [] lower(choice) = <<"q">> -> "break"
      [] OTHER -> "continue"

\* variant: "q" leaves the network menu as "b" does
network_dispatch_q_breaks(choice) ==
    CASE choice = <<"1">> -> "ping_test"
      [] choice = <<"2">> -> "port_scan"
      [] choice = <<"3">> -> "dns_test"
      [] choice = <<"4">> -> "traceroute"
      [] choice = <<"5">> -> "show_connections"
      [] choice = <<"6">> -> "interface_stats"
      [] choice = <<"7">> -> "tcpdump_capture"
      [] lower(choice) \in {<<"b">>, <<"q">>} -> "break"
      [] OTHER -> "continue"

network_dispatch(choice) ==
    CASE choice = <<"1">> -> "ping_test"
      [] choice = <<"2">> -> "port_scan"
      [] choice = <<"3">> -> "dns_test"
      [] choice = <<"4">> -> "traceroute"
      [] choice = <<"5">> -> "show_connections"
      [] choice = <<"6">> -> "interface_stats"
      [] choice = <<"7">> -> "tcpdump_capture"
      [] lower(choice) = <<"b">> -> "break"
      [] OTHER -> "continue"

process_dispatch(choice) ==
    CASE choice = <<"1">> -> "top_by_cpu"
      [] choice = <<"2">> -> "top_by_memory"
      [] choice = <<"3">> -> "find_process"
      [] choice = <<"4">> -> "strace_process"
      [] choice = <<"5">> -> "open_files"
      [] choice = <<"6">> -> "thread_analysis"
      [] choice = <<"7">> -> "zombie_processes"
      [] lower(choice) = <<"b">> -> "break"
      [] OTHER -> "continue"

log_dispatch(choice) ==
    CASE choice = <<"1">> -> "journalctl_menu"
      [] choice = <<"2">> -> "auth_logs"
      [] choice = <<"3">> -> "dmesg_logs"
      [] choice = <<"4">> -> "search_logs"
      [] choice = <<"5">> -> "failed_services"
      [] choice = <<"6">> -> "recent_errors"
      [] lower(choice) = <<"b">> -> "break"
      [] OTHER -> "continue"

resource_dispatch(choice) ==
    CASE choice = <<"1">> -> "top"
      [] choice = <<"2">> -> "memory_details"
      [] choice = <<"3">> -> "iotop"
      [] choice = <<"4">> -> "disk_usage"
      [] choice = <<"5">> -> "memory_pressure"
      [] choice = <<"6">> -> "cpu_info"
      [] choice = <<"7">> -> "io_stats"
      [] lower(choice) = <<"b">> -> "break"
      [] OTHER -> "continue"

\* variant: the Kubernetes menu has no "b" branch
k8s_dispatch_no_back(choice) ==
    CASE choice = <<"1">> -> "k8s_pod_status"
      [] choice = <<"2">> -> "k8s_logs"
      [] choice = <<"3">> -> "k8s_exec"
      [] choice = <<"4">> -> "k8s_describe"
      [] choice = <<"5">> -> "k8s_port_forward"
      [] choice = <<"6">> -> "k8s_events"
      [] choice = <<"7">> -> "k8s_nodes"
      [] choice = <<"8">> -> "change_namespace"
      [] OTHER -> "continue"

k8s_dispatch(choice) ==
    CASE choice = <<"1">> -> "k8s_pod_status"
      [] choice = <<"2">> -> "k8s_logs"
      [] choice = <<"3">> -> "k8s_exec"
      [] choice = <<"4">> -> "k8s_describe"
      [] choice = <<"5">> -> "k8s_port_forward"
      [] choice = <<"6">> -> "k8s_events"
      [] choice = <<"7">> -> "k8s_nodes"
      [] choice = <<"8">> -> "change_namespace"
      [] lower(choice) = <<"b">> -> "break"
      [] OTHER -> "continue"

Dispatch(menu, choice) ==
    CASE menu = "main_menu"     -> main_dispatch(choice)
      [] menu = "network_menu"  -> network_dispatch(choice)
      [] menu = "process_menu"  -> process_dispatch(choice)
      [] menu = "log_menu"      -> log_dispatch(choice)
      [] menu = "resource_menu" -> resource_dispatch(choice)
      [] menu = "k8s_menu"      -> k8s_dispatch(choice)

\* what the operator types at a menu's "Enter choice: "
MenuInputs ==
    {<<"1">>, <<"2">>, <<"3">>, <<"4">>, <<"5">>, <<"6">>, <<"7">>, <<"8">>, <<"9">>,
     <<"b">>, <<"B">>, <<"q">>, <<"Q">>, <<>>, <<"x">>, <<" ", "2", " ">>, <<"1", "0">>}

(***************************************************************************)
(* One iteration of a menu loop.                                           *)
(***************************************************************************)
Top == stack[Len(stack)]

HasRaise(t) == \E i \in 1..Len(t) : t[i].ev = "raise"

\* variant: change_namespace binds a local name and leaves self.namespace alone
NamespaceAfter_local(t, ns) == ns

\* the namespace after the iteration: the last assignment to self.namespace
RECURSIVE NamespaceAfter(_, _)
NamespaceAfter(t, ns) ==
    IF t = <<>> THEN ns
    ELSE IF t[Len(t)].ev = "setns" THEN t[Len(t)].namespace
    ELSE NamespaceAfter(SubSeq(t, 1, Len(t) - 1), ns)

\* history of the entry into a sub-menu
Fresh(self) == [fresh |-> TRUE, session |-> self]

Stale == [fresh |-> FALSE, session |-> Session(None, <<>>)]

\* history of the assignments to self.namespace: none; one that no leaf
\* action has followed yet; one that the action just run was the first to follow
NoChange == [pending |-> FALSE, followed |-> FALSE, from |-> <<>>, to |-> <<>>]

Change(from, to) == [pending |-> TRUE, followed |-> FALSE, from |-> from, to |-> to]

Followed == [pending |-> FALSE, followed |-> TRUE, from |-> <<>>, to |-> <<>>]

\* after a leaf action: the change it asked for, if it asked for one
ChangeAfter(t, ns, before) ==
    LET a == {i \in 1..Len(t) : t[i].ev = "setns"}
    IN  IF a # {} THEN Change(ns, t[CHOOSE i \in a : \A j \in a : j <= i].namespace)
        ELSE IF before.pending /\ before.from # before.to THEN Followed
        ELSE NoChange

\* the head of a menu loop: print the menu, then wait in input("Enter choice: ")
loop_head ==
    /\ status = "running"
    /\ pc = "loop"
    /\ pc' = "prompt"
    /\ trace' = <<Rendered(Top, Title(Top, Session(remote_host, namespace)))>>
    /\ changed' = IF changed.pending THEN changed ELSE NoChange
    /\ UNCHANGED <<status, stack, remote_host, namespace, fresh, interrupted>>
    /\ UNCHANGED gatewayVars

\* SIGINT arrives while the loop waits in input("Enter choice: "): the handler
\* runs; an exception it raises leaves input() and is caught nowhere
sigint ==
    /\ status = "running"
    /\ pc = "prompt"
    /\ pc' = "signal"
    /\ LET h == on_sigint("SIGINT", "frame")
       IN  /\ interrupted' = h
           /\ status' = IF HasRaise(h) THEN "crashed" ELSE status
           /\ stack' = IF HasRaise(h) THEN <<>> ELSE stack
    /\ UNCHANGED <<remote_host, namespace, trace, fresh, changed>>
    /\ UNCHANGED gatewayVars

\* the handler has returned: input() resumes its read of the same line
resume ==
    /\ status = "running"
    /\ pc = "signal"
    /\ pc' = "prompt"
    /\ interrupted' = <<>>
    /\ UNCHANGED <<status, stack, remote_host, namespace, trace, fresh, changed>>
    /\ UNCHANGED gatewayVars

Iteration(menu, raw) ==
    LET self == Session(remote_host, namespace)
        d    == Dispatch(menu, strip(raw))
        head == trace \o <<Input("Enter choice: ", raw)>>
    IN  CASE d \in SubMenus ->
               \* self.network_menu() and the like: the sub-menu's loop starts
               /\ stack' = Append(stack, d)
               /\ trace' = head \o <<Call(d, self)>>
               /\ fresh' = Fresh(self)
               /\ UNCHANGED <<status, remote_host, namespace, changed>>
          [] d = "break" ->
               \* the loop ends and the function returns to its caller
               /\ stack' = SubSeq(stack, 1, Len(stack) - 1)
               /\ status' = IF Len(stack) = 1 THEN "halted" ELSE "running"
               /\ trace' = head \o (IF menu = "main_menu"
                                    THEN <<Printed(<<"\nGoodbye!">>)>> ELSE <<>>)
               /\ changed' = NoChange
               /\ UNCHANGED <<remote_host, namespace, fresh>>
          [] d = "continue" ->
               \* no branch of the chain matches: the loop goes round
               /\ trace' = head
               /\ fresh' = Stale
               /\ UNCHANGED <<status, stack, remote_host, namespace, changed>>
          [] OTHER ->
               \* a leaf action, run to its end or to an uncaught exception
               \E t \in Behaviours(d, self) :
                  LET done == Unwind(head \o <<Call(d, self)>> \o t)
                  IN  /\ trace' = done
                      /\ namespace' = NamespaceAfter(done, namespace)
                      /\ status' = IF HasRaise(done) THEN "crashed" ELSE "running"
                      /\ stack' = IF HasRaise(done) THEN <<>> ELSE stack
                      /\ fresh' = Stale
                      /\ changed' = ChangeAfter(done, namespace, changed)
                      /\ UNCHANGED remote_host

main_menu ==
    /\ status = "running"
    /\ pc = "prompt"
    /\ Top = "main_menu"
    /\ pc' = "loop"
    /\ \E raw \in MenuInputs : Iteration("main_menu", raw)
    /\ UNCHANGED interrupted
    /\ UNCHANGED gatewayVars

network_menu ==
    /\ status = "running"
    /\ pc = "prompt"
    /\ Top = "network_menu"
    /\ pc' = "loop"
    /\ \E raw \in MenuInputs : Iteration("network_menu", raw)
    /\ UNCHANGED interrupted
    /\ UNCHANGED gatewayVars

process_menu ==
    /\ status = "running"
    /\ pc = "prompt"
    /\ Top = "process_menu"
    /\ pc' = "loop"
    /\ \E raw \in MenuInputs : Iteration("process_menu", raw)
    /\ UNCHANGED interrupted
    /\ UNCHANGED gatewayVars

log_menu ==
    /\ status = "running"
    /\ pc = "prompt"
    /\ Top = "log_menu"
    /\ pc' = "loop"
    /\ \E raw \in MenuInputs : Iteration("log_menu", raw)
    /\ UNCHANGED interrupted
    /\ UNCHANGED gatewayVars

resource_menu ==
    /\ status = "running"
    /\ pc = "prompt"
    /\ Top = "resource_menu"
    /\ pc' = "loop"
    /\ \E raw \in MenuInputs : Iteration("resource_menu", raw)
    /\ UNCHANGED interrupted
    /\ UNCHANGED gatewayVars

k8s_menu ==
    /\ status = "running"
    /\ pc = "prompt"
    /\ Top = "k8s_menu"
    /\ pc' = "loop"
    /\ \E raw \in MenuInputs : Iteration("k8s_menu", raw)
    /\ UNCHANGED interrupted
    /\ UNCHANGED gatewayVars

(***************************************************************************)
(* main(): the arguments argparse hands to the DebugToolkit constructor.   *)
(***************************************************************************)
HostArgs == {None, Some(<<"host1">>), Some(<<>>)}

NamespaceArgs == {<<"default">>, <<"staging">>}

GatewayIdle ==
    /\ g_pc = "idle"
    /\ g_cmd = <<>>
    /\ g_host = None
    /\ g_clock = 0
    /\ g_outcome = "none"
    /\ g_result = Result(0, <<>>)

Init ==
    /\ status = "running"
    /\ pc = "loop"
    /\ stack = <<"main_menu">>
    /\ remote_host \in HostArgs
    /\ namespace \in NamespaceArgs
    /\ trace = <<>>
    /\ fresh = Stale
    /\ changed = NoChange
    /\ interrupted = <<>>
    /\ GatewayIdle

Next ==
    \/ loop_head
    \/ sigint
    \/ resume
    \/ main_menu
    \/ network_menu
    \/ process_menu
    \/ log_menu
    \/ resource_menu
    \/ k8s_menu

Spec == Init /\ [][Next]_vars

(***************************************************************************)
(* run_command on its own, with time: the call, the child of               *)
(* subprocess.run while it runs, and the return.                           *)
(***************************************************************************)
GatewayCmds == {<<"echo hi">>, <<"nonexistent-binary">>, <<"sleep 100">>}

ConsoleIdle ==
    /\ status = "running"
    /\ pc = "loop"
    /\ stack = <<"main_menu">>
    /\ remote_host = None
    /\ namespace = <<"default">>
    /\ trace = <<>>
    /\ fresh = Stale
    /\ changed = NoChange
    /\ interrupted = <<>>

GatewayInit ==
    /\ ConsoleIdle
    /\ g_pc = "call"
    /\ g_cmd \in GatewayCmds
    /\ g_host \in HostArgs
    /\ g_clock = 0
    /\ g_outcome = "none"
    /\ g_result = Result(0, <<>>)

\* run_command is left: by its return, or by an exception it did not catch
Leave(o) ==
    LET r == run_command(g_cmd, g_host, o)
    IN  /\ g_pc' = IF r.raised THEN "raised" ELSE "returned"
        /\ g_outcome' = o.kind
        /\ g_result' = r
        /\ UNCHANGED <<g_cmd, g_host, g_clock>>
        /\ UNCHANGED consoleVars

\* variant: subprocess.run without timeout=60
expired_never(clock) == FALSE

\* subprocess.run raises TimeoutExpired once the child has run for `timeout`
expired(clock) == clock >= timeout

\* subprocess.run starts the shell
g_spawn ==
    /\ g_pc = "call"
    /\ g_pc' = "child"
    /\ UNCHANGED <<g_cmd, g_host, g_clock, g_outcome, g_result>>
    /\ UNCHANGED consoleVars

\* subprocess.run cannot start the shell and raises
g_spawn_fails ==
    /\ g_pc = "call"
    /\ \E m \in OsErrors : Leave(Outcome("oserr", 0, m))

\* time passes while the child runs
g_tick ==
    /\ g_pc = "child"
    /\ g_clock < timeout + MaxOverrun
    /\ g_clock' = g_clock + 1
    /\ UNCHANGED <<g_pc, g_cmd, g_host, g_outcome, g_result>>
    /\ UNCHANGED consoleVars

\* the child ends before the timeout
g_exit ==
    /\ g_pc = "child"
    /\ g_clock < timeout
    /\ \E rc \in ExitCodes, out \in Outputs : Leave(Outcome("exit", rc, out))

\* the timeout elapses first
g_expire ==
    /\ g_pc = "child"
    /\ expired(g_clock)
    /\ Leave(Hang)

GatewayNext ==
    \/ g_spawn
    \/ g_spawn_fails
    \/ g_tick
    \/ g_exit
    \/ g_expire

\* the call goes on to start its child, time passes, and subprocess.run acts
\* on its timeout when it has elapsed; nothing makes the child end by itself
GatewaySpec ==
    /\ GatewayInit
    /\ [][GatewayNext]_vars
    /\ WF_vars(g_spawn \/ g_spawn_fails)
    /\ WF_vars(g_tick)
    /\ WF_vars(g_expire)

(***************************************************************************)
(* Properties.                                                             *)
(*                                                                         *)
(* After an iteration (pc = "loop", trace not empty) trace[1] is the menu   *)
(* that was printed, trace[2] the choice that was read and, when the chain *)
(* called something, trace[3] the call.  A key is what the chain compares: *)
(* the choice stripped, and lower-cased as the chain does for "b" and "q". *)
(***************************************************************************)
Iterated == pc = "loop" /\ Len(trace) >= 2

LastMenu == trace[1].menu

Key(raw) == lower(strip(raw))

IsKey(raw, k) == Key(raw) = <<k>>

Recognised(menu, raw) == \E e \in Entries(menu) : IsKey(raw, e)

SubMenuKeys == {"1", "2", "3", "4", "5"}

\* the step is a menu loop reading a choice and acting on it
Chose == pc = "prompt" /\ pc' = "loop"

Chosen == trace'[2].raw

Calls(t) == {i \in 1..Len(t) : t[i].ev = "call"}

Execs(t) == {i \in 1..Len(t) : t[i].ev = "exec"}

CapturedExecs(t) == {i \in Execs(t) : t[i].mode = "captured"}

SameSession == remote_host' = remote_host /\ namespace' = namespace

\* C1: while the console runs the menu stack holds main_menu at its bottom and
\* at most one menu above it; "b" at the main menu leaves the main menu current,
\* the console running and calls nothing; "b" in a menu above it (depth 2, so
\* one "b") leads back to the main menu.
C1_RootNeverPopped ==
    /\ status = "running" =>
          /\ Len(stack) \in {1, 2}
          /\ stack[1] = "main_menu"
          /\ Len(stack) = 2 => stack[2] \in SubMenus
    /\ (Iterated /\ LastMenu = "main_menu" /\ IsKey(trace[2].raw, "b")) =>
          /\ status = "running"
          /\ stack = <<"main_menu">>
          /\ Calls(trace) = {}
          /\ Execs(trace) = {}
    /\ (Iterated /\ LastMenu \in SubMenus /\ IsKey(trace[2].raw, "b")) =>
          /\ status = "running"
          /\ stack = <<"main_menu">>

C1_Witness ==
    /\ Iterated
    /\ LastMenu = "main_menu"
    /\ trace[2].raw = <<"b">>
    /\ stack = <<"main_menu">>
    /\ status = "running"

\* C2: a sub-menu key at the main menu enters the sub-menu with the session
\* untouched, and a "b" read as the first input after such an entry gives back
\* exactly the main menu and the session of before the entry.
C2_PushPopSymmetry ==
    [][/\ (Chose /\ Top = "main_menu" /\ \E k \in SubMenuKeys : IsKey(Chosen, k)) =>
             /\ Len(stack') = 2
             /\ stack'[1] = "main_menu"
             /\ stack'[2] \in SubMenus
             /\ fresh' = Fresh(Session(remote_host, namespace))
             /\ SameSession
       /\ (Chose /\ Len(stack) = 2 /\ fresh.fresh /\ IsKey(Chosen, "b")) =>
             /\ stack' = <<"main_menu">>
             /\ status' = "running"
             /\ Session(remote_host', namespace') = fresh.session]_vars

C2_Witness ==
    /\ Iterated
    /\ LastMenu = "k8s_menu"
    /\ IsKey(trace[2].raw, "b")
    /\ fresh.fresh
    /\ stack = <<"main_menu">>
    /\ Session(remote_host, namespace) = fresh.session

\* C3: "q" at the main menu halts the console, and once halted nothing happens
\* any more: no input is read, no menu printed, nothing called or executed.
C3_QuitHalts ==
    [][/\ (Chose /\ Top = "main_menu" /\ IsKey(Chosen, "q")) =>
             /\ status' = "halted"
             /\ Calls(trace') = {}
             /\ Execs(trace') = {}
       /\ status = "halted" => UNCHANGED vars]_vars

C3_Witness ==
    /\ status = "halted"
    /\ LastMenu = "main_menu"
    /\ trace[2].raw = <<"q">>
    /\ ~ ENABLED Next

\* C4: in every menu a choice that is none of the menu's entries changes
\* nothing: the stack, the session and the status stay, nothing is called or
\* executed, and the loop goes round to the same menu.
C4_UnrecognisedKeyIgnored ==
    [][(Chose /\ ~ Recognised(Top, Chosen)) =>
          /\ stack' = stack
          /\ status' = status
          /\ SameSession
          /\ trace' = trace \o <<Input("Enter choice: ", Chosen)>>]_vars

C4_Witness ==
    /\ Iterated
    /\ LastMenu = "network_menu"
    /\ trace[2].raw = <<"q">>
    /\ Len(trace) = 2
    /\ stack = <<"main_menu", "network_menu">>
    /\ status = "running"

C6_CapturedNeverRaises ==
    /\ g_pc # "raised"
    /\ g_pc = "returned" =>
          /\ ~ g_result.raised
          /\ g_result.code \in Nat
          /\ g_outcome = "exit" => g_result.code \in ExitCodes /\ g_result.out \in Outputs
          /\ g_outcome \in {"oserr", "hang"} =>
                (g_result.code # 0 /\ g_result.out # <<>>)

C6_Witness ==
    /\ g_pc = "returned"
    /\ g_outcome = "oserr"
    /\ g_cmd = <<"nonexistent-binary">>
    /\ g_result.code = 1

\* C7: every call of run_command returns; a child still running when the 60
\* units have elapsed ends the call with code 1 and "Command timed out",
\* with or without a remote host.
C7_TimeoutReturns ==
    /\ (g_pc \in {"call", "child"}) ~> (g_pc = "returned")
    /\ [][(g_pc = "child" /\ g_clock >= timeout /\ g_pc' # "child") =>
             (g_pc' = "returned" /\ g_result' = Result(1, <<"Command timed out">>))]_vars

C7_Witness ==
    /\ g_pc = "returned"
    /\ g_outcome = "hang"
    /\ g_clock >= timeout
    /\ truthy(g_host)
    /\ g_result = Result(1, <<"Command timed out">>)

C9_NamespaceNeverEmpty == namespace # <<>>

\* the flag of the cluster-control command: -n and the namespace, in a row
HasNamespaceFlag(cmd, ns) ==
    \E i \in 1..Len(cmd) : cmd[i] = "-n " /\ At(cmd, i + 1, ns)

IsKubectl(cmd) == cmd # <<>> /\ cmd[1] = "kubectl "

Namespaced ==
    {"k8s_pod_status", "k8s_logs", "k8s_exec", "k8s_describe", "k8s_port_forward",
     "k8s_events"}

ClusterWide == {"k8s_nodes", "change_namespace"}

\* C10 as stated: every kubectl command line of every Kubernetes action
\* carries the namespace the session had when the action was called.
C10_EveryKubectlNamespaced ==
    \A i \in Execs(trace) :
        IsKubectl(trace[i].cmd) => HasNamespaceFlag(trace[i].cmd, trace[3].namespace)

\* C10, amended: the kubectl command lines of pod status, logs (its pod listing
\* too), exec, describe, port forward and events carry -n and the namespace the
\* session has at that time; those of node status and of the namespace listing
\* of change namespace carry no namespace flag.
C10_NamespacedActionsPassFlag ==
    (Iterated /\ Len(trace) >= 3 /\ trace[3].ev = "call") =>
        /\ trace[3].fn \in Namespaced =>
              /\ Execs(trace) # {}
              /\ \A i \in Execs(trace) :
                    /\ IsKubectl(trace[i].cmd)
                    /\ HasNamespaceFlag(trace[i].cmd, trace[3].namespace)
              /\ namespace = trace[3].namespace
        /\ trace[3].fn \in ClusterWide =>
              \A i \in Execs(trace) :
                  IsKubectl(trace[i].cmd) /\ ~ contains(trace[i].cmd, "-n ")

C10_Witness ==
    /\ Iterated
    /\ Len(trace) >= 3
    /\ trace[3].ev = "call"
    /\ trace[3].fn = "k8s_logs"
    /\ namespace = <<"web">>
    /\ Cardinality(Execs(trace)) = 2
    /\ \A i \in Execs(trace) : HasNamespaceFlag(trace[i].cmd, <<"web">>)

\* sub occurs in cmd, piece for piece
Contains(cmd, sub) == \E i \in 1..(Len(cmd) + 1) : At(cmd, i, sub)

\* what follows the namespace in the command lines that pass one
AfterNamespace == {" -o wide", " --no-headers", " ", " -- ", " | less", " --sort-by="}

\* the value of the -n flag of cmd is ns, all of it
NamespaceFlagIs(cmd, ns) ==
    \E i \in 1..Len(cmd) :
        /\ cmd[i] = "-n "
        /\ At(cmd, i + 1, ns)
        /\ i + Len(ns) + 1 <= Len(cmd)
        /\ cmd[i + Len(ns) + 1] \in AfterNamespace

\* the step runs a Kubernetes action, the first since change namespace set
\* the namespace to another value than it had
FirstAfterChange ==
    /\ Chose
    /\ Top = "k8s_menu"
    /\ changed.pending
    /\ changed.from # changed.to
    /\ Len(trace') >= 3
    /\ trace'[3].ev = "call"

\* C11 as stated: every command line of the Kubernetes action that follows a
\* change of namespace from D to S contains S and does not contain D,
\* whichever action it is.
C11_NextActionUsesNewNamespace ==
    [][FirstAfterChange =>
          \A i \in Execs(trace') :
              /\ Contains(trace'[i].cmd, changed.to)
              /\ ~ Contains(trace'[i].cmd, changed.from)]_vars

\* C11, amended: after change namespace set the namespace from D to S, the
\* next Kubernetes action runs with S: pod status, logs (its pod listing too),
\* exec, describe, port forward and events give -n the value S and not D in
\* every command line, node status and change namespace pass no namespace.
C11_NextNamespacedActionUsesNewNamespace ==
    [][FirstAfterChange =>
          /\ namespace = changed.to
          /\ trace'[3].namespace = changed.to
          /\ trace'[3].fn \in Namespaced =>
                /\ Execs(trace') # {}
                /\ \A i \in Execs(trace') :
                      /\ NamespaceFlagIs(trace'[i].cmd, changed.to)
                      /\ ~ NamespaceFlagIs(trace'[i].cmd, changed.from)
          /\ trace'[3].fn \in ClusterWide =>
                \A i \in Execs(trace') : ~ contains(trace'[i].cmd, "-n ")]_vars

C11_Witness ==
    /\ Iterated
    /\ changed = Followed
    /\ Len(trace) = 5
    /\ trace[1] = Rendered("k8s_menu", <<"Kubernetes Debugging (ns: ", "web", ")">>)
    /\ trace[3].fn = "k8s_pod_status"
    /\ trace[4].cmd = <<"kubectl ", "get pods ", "-n ", "web", " -o wide">>
    /\ namespace = <<"web">>

\* the call of a leaf action is trace[3]
LeafCalled(t) == Len(t) >= 3 /\ t[3].ev = "call" /\ t[3].fn \notin SubMenus

\* C12: with a remote host every captured execution of every action is run as
\* ssh -o ConnectTimeout=10 -o BatchMode=yes <host> '<cmd>' and every
\* interactive one as ssh -t <host> '<cmd>'; without one (None, or the empty
\* string) every execution runs the command as the action built it.
C12_DispatchByRemoteTarget ==
    \A i \in Execs(trace) :
        LET e == trace[i]
        IN  IF remote_host.some /\ remote_host.val # <<>>
            THEN /\ e.mode = "captured" =>
                       e.argv = <<"ssh -o ConnectTimeout=10 -o BatchMode=yes ">>
                                  \o remote_host.val \o <<" ", "'">> \o e.cmd \o <<"'">>
                 /\ e.mode = "interactive" =>
                       e.argv = <<"ssh -t ">> \o remote_host.val \o <<" ", "'">>
                                  \o e.cmd \o <<"'">>
            ELSE e.argv = e.cmd

C12_Witness ==
    /\ Iterated
    /\ LeafCalled(trace)
    /\ trace[3].fn = "top"
    /\ remote_host = Some(<<"host1">>)
    /\ Len(trace) = 4
    /\ trace[4].mode = "interactive"
    /\ trace[4].argv = <<"ssh -t ", "host1", " ", "'", "top", "'">>

\* C13: the remote host never changes, and a step that changes the namespace
\* is a run of change namespace; pushes, pops, the quit, unrecognised keys,
\* interrupts and every other leaf action leave it, whatever their
\* executions return.
C13_SessionChangedOnlyByChangeNamespace ==
    [][/\ remote_host' = remote_host
       /\ namespace' # namespace =>
             /\ Chose
             /\ Top = "k8s_menu"
             /\ LeafCalled(trace')
             /\ trace'[3].fn = "change_namespace"]_vars

C13_Witness ==
    /\ Iterated
    /\ LeafCalled(trace)
    /\ trace[3].fn = "k8s_pod_status"
    /\ trace[4].code = 1
    /\ trace[3].namespace = <<"web">>
    /\ namespace = <<"web">>
    /\ remote_host = Some(<<"host1">>)
    /\ changed = Followed

\* an interactive execution of the iteration was interrupted
InterruptedExec(t) ==
    \E i \in Execs(t) : t[i].mode = "interactive" /\ t[i].how = "interrupted"

\* C14: an interrupt while a menu waits for its choice is reported, the
\* console goes on waiting at the same prompt, and status, menu stack and
\* session are as before; an interrupt during an interactive execution
\* raises nothing, and the iteration ends at the loop of the same menu with
\* the session as before.
C14_InterruptKeepsNavigation ==
    [][/\ (pc = "prompt" /\ pc' = "signal") =>
             /\ interrupted' = <<Printed(<<"\nInterrupted">>)>>
             /\ status' = "running"
             /\ stack' = stack
             /\ trace' = trace
             /\ SameSession
       /\ pc = "signal" =>
             /\ pc' = "prompt"
             /\ status' = "running"
             /\ stack' = stack
             /\ trace' = trace
             /\ SameSession
       /\ (Chose /\ InterruptedExec(trace')) =>
             /\ ~ HasRaise(trace')
             /\ status' = "running"
             /\ stack' = stack
             /\ SameSession]_vars

C14_Witness ==
    /\ pc = "signal"
    /\ interrupted = <<Printed(<<"\nInterrupted">>)>>
    /\ status = "running"
    /\ stack = <<"main_menu", "k8s_menu">>
    /\ trace = <<Rendered("k8s_menu", <<"Kubernetes Debugging (ns: ", "web", ")">>)>>
    /\ namespace = <<"web">>

\* the modes of the executions of an iteration
Modes(t) == {t[i].mode : i \in Execs(t)}

\* the answer to the action's own "Choice: " was read before event i
ChoiceBefore(t, i, c) ==
    \E j \in 1..(i - 1) :
        t[j].ev = "input" /\ t[j].prompt = "Choice: " /\ strip(t[j].raw) = c

\* C15 as stated: the executions of one invocation of a leaf action are all
\* captured or all interactive.
C15_OneModePerAction ==
    (Iterated /\ LeafCalled(trace)) => Cardinality(Modes(trace)) <= 1

\* C15, amended: the executions of one invocation of a leaf action other than
\* pod logs are all captured or all interactive; pod logs makes one captured
\* execution, the pod listing, and then at most one more: interactive
\* (kubectl logs ... -f) for the choice 2, captured for the choices 1 and 3.
C15_OneModeExceptPodLogs ==
    (Iterated /\ LeafCalled(trace)) =>
        LET E == Execs(trace)
        IN  /\ trace[3].fn # "k8s_logs" => Cardinality(Modes(trace)) <= 1
            /\ trace[3].fn = "k8s_logs" =>
                  /\ 4 \in E
                  /\ trace[4].mode = "captured"
                  /\ contains(trace[4].cmd, "get pods ")
                  /\ Cardinality(E) <= 2
                  /\ \A i \in E \ {4} :
                        /\ contains(trace[i].cmd, "logs ")
                        /\ trace[i].mode = "interactive" <=>
                              ChoiceBefore(trace, i, <<"2">>)
                        /\ trace[i].mode = "interactive" =>
                              trace[i].cmd[Len(trace[i].cmd)] = " -f"

C15_Witness ==
    /\ Iterated
    /\ LeafCalled(trace)
    /\ trace[3].fn = "k8s_logs"
    /\ Modes(trace) = {"captured", "interactive"}
    /\ Cardinality(Execs(trace)) = 2
    /\ ChoiceBefore(trace, Len(trace), <<"2">>)

\* what a leaf action prints after its execution i and before its next one
PrintsAfter(t, i) ==
    {j \in (i + 1)..Len(t) :
        t[j].ev = "print" /\ \A k \in Execs(t) : ~ (i < k /\ k < j)}

\* C16: after each captured execution of a leaf action its output is printed
\* as it is; when the output is empty something is printed, and none of it is
\* the empty text.
C16_CapturedOutputRendered ==
    (Iterated /\ LeafCalled(trace)) =>
        \A i \in CapturedExecs(trace) :
            IF trace[i].out # <<>>
            THEN \E j \in PrintsAfter(trace, i) : trace[j].text = trace[i].out
            ELSE /\ PrintsAfter(trace, i) # {}
                 /\ \A j \in PrintsAfter(trace, i) : trace[j].text # <<>>

\* the prompt for the name a listing informs, and the listing's command
NamePrompt(fn) == IF fn = "k8s_logs" THEN "\nPod name: " ELSE "\nNew namespace: "

ListingCmd(fn) == IF fn = "k8s_logs" THEN "get pods " ELSE "get ns --no-headers | awk "

\* C17: pod logs and change namespace make exactly one captured listing
\* execution and print its output before they ask for the name, and ask
\* nothing before it; what the listing informs comes after that prompt: the
\* log retrieval is another, later execution, and the namespace is assigned
\* the answer after it.
C17_ListingBeforePrompt ==
    (Iterated /\ LeafCalled(trace) /\ trace[3].fn \in {"k8s_logs", "change_namespace"}) =>
        LET fn == trace[3].fn
            P  == {j \in 1..Len(trace) :
                      trace[j].ev = "input" /\ trace[j].prompt = NamePrompt(fn)}
            L  == {i \in Execs(trace) : contains(trace[i].cmd, ListingCmd(fn))}
        IN  /\ Cardinality(P) = 1
            /\ Cardinality(L) = 1
            /\ \A p \in P, l \in L :
                  /\ l < p
                  /\ trace[l].mode = "captured"
                  /\ \E j \in (l + 1)..(p - 1) : trace[j] = Printed(trace[l].out)
                  /\ \A j \in 3..(p - 1) : trace[j].ev \notin {"input", "setns"}
                  /\ \A i \in Execs(trace) \ L : i > p
                  /\ fn = "k8s_logs" => \A j \in 1..Len(trace) : trace[j].ev # "setns"
                  /\ fn = "change_namespace" =>
                        /\ Execs(trace) = L
                        /\ \E j \in (p + 1)..Len(trace) :
                              trace[j] = SetNamespace(strip(trace[p].raw))
                        /\ namespace = strip(trace[p].raw)

C17_Witness ==
    /\ Iterated
    /\ LeafCalled(trace)
    /\ trace[3].fn = "change_namespace"
    /\ Len(trace) = 9
    /\ trace[4].mode = "captured"
    /\ trace[4].out = <<"data">>
    /\ trace[6] = Printed(<<"data">>)
    /\ trace[7] = Input("\nNew namespace: ", <<"web">>)
    /\ trace[8] = SetNamespace(<<"web">>)
    /\ namespace = <<"web">>

\* the parameters with a default: the action, its prompt, the pieces of the
\* command line before and after the parameter, and the default
Default(fn, prompt, before, after, default) ==
    [fn |-> fn, prompt |-> prompt, before |-> before, after |-> after,
     default |-> default]

Defaults ==
    {Default("ping_test", "Ping count [5]: ", <<"ping -c ">>, <<" ">>, <<"5">>),
     Default("tcpdump_capture", "Interface [any]: ", <<" tcpdump -i ">>, <<" ">>, <<"any">>),
     Default("tcpdump_capture", "Duration in seconds [10]: ",
             <<"timeout ">>, <<" tcpdump -i ">>, <<"10">>),
     Default("strace_process", "Duration in seconds [5]: ",
             <<"timeout ">>, <<" strace -p ">>, <<"5">>),
     Default("search_logs", "Since (e.g., '1 hour ago', '2024-01-01') [1 hour ago]: ",
             <<"journalctl --since ", "'">>, <<"'">>, <<"1 hour ago">>),
     Default("k8s_exec", "Shell [/bin/sh]: ", <<" -- ">>, <<>>, <<"/bin/sh">>),
     Default("k8s_describe", "Resource type [pod]: ", <<"describe ">>, <<" ">>, <<"pod">>)}

\* cmd has v, no more and no less, between before and after (after = <<>>:
\* the end of the command)
Passes(cmd, before, v, after) ==
    \E i \in 1..Len(cmd) :
        LET k == i + Len(before) + Len(v)
        IN  /\ At(cmd, i, before)
            /\ At(cmd, i + Len(before), v)
            /\ IF after = <<>> THEN k = Len(cmd) + 1 ELSE At(cmd, k, after)

\* C18: for each parameter with a default, the command line the action runs
\* has the default in the parameter's place when the answer is empty or only
\* white space, and otherwise the answer (without the white space around it).
C18_DefaultsApplied ==
    (Iterated /\ LeafCalled(trace)) =>
        \A d \in Defaults :
            trace[3].fn = d.fn =>
                \A j \in 1..Len(trace) :
                    (trace[j].ev = "input" /\ trace[j].prompt = d.prompt) =>
                        /\ Cardinality(Execs(trace)) = 1
                        /\ \A i \in Execs(trace) :
                              Passes(trace[i].cmd, d.before,
                                     IF strip(trace[j].raw) = <<>>
                                     THEN d.default ELSE strip(trace[j].raw),
                                     d.after)

C18_Witness ==
    /\ Iterated
    /\ LeafCalled(trace)
    /\ trace[3].fn = "ping_test"
    /\ trace[4] = Input("Target host/IP: ", <<"web">>)
    /\ trace[5] = Input("Ping count [5]: ", <<" ">>)
    /\ trace[6].cmd = <<"ping -c ", "5", " ", "web">>

\* C19: no menu prints a key twice, every key a menu prints is taken by its
\* chain, and a choice that is one of the keys does exactly one thing: it
\* calls the one menu or action the chain gives for it, or it breaks the loop.
C19_EntryKeysDistinct ==
    /\ \A menu \in Menus :
          LET k == EntryKeys(menu)
          IN  /\ \A i, j \in 1..Len(k) : i # j => k[i] # k[j]
              /\ \A i \in 1..Len(k) : Dispatch(menu, <<k[i]>>) # "continue"
    /\ (Iterated /\ Recognised(LastMenu, trace[2].raw)) =>
          LET d == Dispatch(LastMenu, strip(trace[2].raw))
          IN  /\ Cardinality({e \in Entries(LastMenu) : IsKey(trace[2].raw, e)}) = 1
              /\ d # "continue"
              /\ IF d = "break"
                 THEN Calls(trace) = {} /\ Execs(trace) = {}
                 ELSE Calls(trace) = {3} /\ trace[3].fn = d

C19_Witness ==
    /\ Iterated
    /\ LastMenu = "k8s_menu"
    /\ trace[2].raw = <<"8">>
    /\ Calls(trace) = {3}
    /\ trace[3].fn = "change_namespace"

\* C20: with a remote host, the command the remote host is handed is the
\* command the action built, for every execution of every action.
C20_RemoteCommandIntact ==
    \A i \in Execs(trace) :
        truthy(remote_host) =>
            remote_command(trace[i].argv, remote_host.val) = trace[i].cmd

\* the ports answer of a port scan as port_scan uses it
PortsTyped(t) == strip(t[5].raw)

\* C21: a port scan whose ports answer contains "-" makes exactly one
\* execution, captured, whose command carries the whole answer; otherwise it
\* makes exactly one captured execution per comma-separated item, in the order
\* typed, each followed by one line that names the item and says OPEN exactly
\* when that execution returned code 0 and CLOSED otherwise (so also when the
\* probe timed out or could not be started); after it the network menu is
\* current again.
C21_PortScanShape ==
    (Iterated /\ LeafCalled(trace) /\ trace[3].fn = "port_scan") =>
        LET ports == PortsTyped(trace)
            items == split(ports, ",")
        IN  /\ status = "running"
            /\ stack = <<"main_menu", "network_menu">>
            /\ Execs(trace) = CapturedExecs(trace)
            /\ IF contains(ports, "-")
               THEN /\ Cardinality(Execs(trace)) = 1
                    /\ \A i \in Execs(trace) : Contains(trace[i].cmd, ports)
               ELSE /\ Len(trace) = 5 + 2 * Len(items)
                    /\ \A k \in 1..Len(items) :
                          LET x == trace[4 + 2 * k]
                              p == trace[5 + 2 * k]
                          IN  /\ x.ev = "exec"
                              /\ Contains(x.cmd, <<" ">> \o strip(items[k]) \o <<" 2>&1">>)
                              /\ p.ev = "print"
                              /\ Contains(p.text, <<"  Port ">> \o strip(items[k]))
                              /\ Contains(p.text, <<"OPEN">>) <=> x.code = 0
                              /\ Contains(p.text, <<"CLOSED">>) <=> x.code # 0

\* a list of two ports: the first probe succeeds, the second times out
C21_Witness ==
    /\ Iterated
    /\ LeafCalled(trace)
    /\ trace[3].fn = "port_scan"
    /\ PortsTyped(trace) = <<"2", "2", ",", " ", "8", "0">>
    /\ Len(trace) = 9
    /\ trace[6].code = 0
    /\ Contains(trace[7].text, <<"OPEN">>)
    /\ trace[8].out = <<"Command timed out">>
    /\ Contains(trace[9].text, <<"CLOSED">>)
    /\ Top = "network_menu"

\* the options an action's own numbered choice offers
Options(fn) ==
    IF fn = "journalctl_menu" THEN {<<"1">>, <<"2">>, <<"3">>, <<"4">>, <<"5">>}
                              ELSE {<<"1">>, <<"2">>, <<"3">>}

\* where a leaf action asks its own numbered choice
ChoicePrompts(t) == {i \in 4..Len(t) : t[i].ev = "input" /\ t[i].prompt = "Choice: "}

\* the action of the iteration asked a numbered choice and got none of its options
Unrecognized(t) ==
    /\ LeafCalled(t)
    /\ t[3].fn \in {"journalctl_menu", "dmesg_logs", "k8s_logs"}
    /\ \E i \in ChoicePrompts(t) : strip(t[i].raw) \notin Options(t[3].fn)

\* C22: when journalctl options, dmesg options or pod logs get an answer to
\* their numbered choice that is none of the options, the choice is asked
\* exactly once and is the last thing the action does: no execution and no
\* printing follow it, nothing is raised, the namespace is not assigned, and
\* the category menu the action was chosen from is current again above the
\* main menu.
C22_UnrecognizedChoiceDoesNothing ==
    (Iterated /\ Unrecognized(trace)) =>
        /\ Cardinality(ChoicePrompts(trace)) = 1
        /\ ChoicePrompts(trace) = {Len(trace)}
        /\ \A i \in 1..Len(trace) : trace[i].ev \notin {"setns", "raise"}
        /\ Execs(trace) =
              (IF trace[3].fn = "k8s_logs"
               THEN {i \in CapturedExecs(trace) : Contains(trace[i].cmd, <<"get pods ">>)}
               ELSE {})
        /\ Cardinality(Execs(trace)) <= 1
        /\ status = "running"
        /\ stack = <<"main_menu", LastMenu>>
        /\ LastMenu = (IF trace[3].fn = "k8s_logs" THEN "k8s_menu" ELSE "log_menu")

\* pod logs, listing made and both names given, then "x" for the choice
C22_Witness ==
    /\ Iterated
    /\ Unrecognized(trace)
    /\ trace[3].fn = "k8s_logs"
    /\ trace[Len(trace)].raw = <<"x">>
    /\ Cardinality(Execs(trace)) = 1
    /\ Top = "k8s_menu"

=============================================================================
